---- MODULE Spec2Model ----
(***************************************************************************)
(* Model of dashboard-streamlit/asiangames_dashboard_streamlit.py: a       *)
(* Streamlit script that loads a medal table from a Google Sheet once      *)
(* (st.cache_resource), filters it by year and country, lets the user edit *)
(* the filtered table and write it back, and derives chart views from the  *)
(* filtered table.  Every action is one execution of the whole script,     *)
(* started by the session opening or by one widget interaction.            *)
(***************************************************************************)
EXTENDS Integers, Sequences, FiniteSets, TLC

VARIABLES
    remote,              \* rows of the worksheet below its header row
    loaded,              \* st.cache_resource holds load_data()'s result
    df,                  \* the cached DataFrame (line 29)
    fetches,             \* completed executions of load_data's body
    loadFailures,        \* executions of load_data's body that raised
    selected_years,      \* line 36
    selected_countries,  \* line 37
    filtered_df,         \* line 39
    edited_df,           \* line 43: what st.data_editor returned
    button,              \* line 46: what st.button returned in the last run
    notice,              \* what the last run put under the button
    nEdits               \* editor interactions so far (bounded)

vars == <<remote, loaded, df, fetches, loadFailures, selected_years,
          selected_countries, filtered_df, edited_df, button, notice, nEdits>>

----------------------------------------------------------------------------
(* Bounds *)

MaxRows == 2          \* rows of the worksheet in Spec
MaxViewRows == 4      \* rows of the worksheet in ViewSpec
MaxEdits == 1         \* editor interactions in one behaviour
MaxLoadRetries == 1   \* failed loads in one behaviour

----------------------------------------------------------------------------
(* Cells.  An empty worksheet cell reads as NaN (get_as_dataframe); text   *)
(* is a sequence of one-character strings so that the regular expression   *)
(* of line 25 and Python's string order can be computed.                   *)

NaN == -1
NaNText == <<"NaN">>

Alphabet == <<" ", "(", ")", "a", "b", "c", "d", "e", "x">>

Ord(ch) == CHOOSE i \in 1..Len(Alphabet) : Alphabet[i] = ch

Min(S) == CHOOSE m \in S : \A n \in S : m <= n
Max(S) == CHOOSE m \in S : \A n \in S : m >= n

\* s < t for Python strings (code-point order, a proper prefix is smaller)
StrLess(s, t) ==
    \E k \in 1..(Len(t)) :
        /\ \A j \in 1..(k - 1) : j <= Len(s) /\ s[j] = t[j]
        /\ \/ Len(s) = k - 1
           \/ Len(s) >= k /\ Ord(s[k]) < Ord(t[k])

\* sorted(S) for a set of strings
SortedStrs(S) ==
    CHOOSE q \in [1..Cardinality(S) -> S] :
        \A i, j \in 1..Cardinality(S) : i < j => StrLess(q[i], q[j])

\* sorted(S) for a set of integers
SortedInts(S) ==
    CHOOSE q \in [1..Cardinality(S) -> S] :
        \A i, j \in 1..Cardinality(S) : i < j => q[i] < q[j]

Range(q) == {q[i] : i \in 1..Len(q)}

----------------------------------------------------------------------------
(* load_data, lines 14-27 *)

Row(noc, year, gold, silver, bronze, total, country) ==
    [NOC |-> noc, Year |-> year, Gold |-> gold, Silver |-> silver,
     Bronze |-> bronze, Total |-> total, Country |-> country]

\* dropna(how="all"): a row is dropped when every cell of it is empty
AllNaN(r) ==
    /\ r.NOC = NaNText /\ r.Country = NaNText
    /\ r.Year = NaN /\ r.Gold = NaN /\ r.Silver = NaN
    /\ r.Bronze = NaN /\ r.Total = NaN

dropna(rows) == SelectSeq(rows, LAMBDA r : ~AllNaN(r))

\* \s of the regular expression, within the alphabet
IsSpace(ch) == ch = " "

\* a variant that keeps the whole text when the pattern does not match
ExtractKeepWhole(noc) ==
    IF noc = NaNText THEN NaNText
    ELSE LET hits == {i \in 1..(Len(noc) - 1) :
                          IsSpace(noc[i]) /\ noc[i + 1] = "("}
         IN  IF hits = {} THEN noc ELSE SubSeq(noc, 1, Min(hits) - 1)

\* Series.str.extract(r'^(.*?)\s\('): the shortest prefix that is followed
\* by a whitespace character and "(", NaN when there is none
Extract(noc) ==
    IF noc = NaNText THEN NaNText
    ELSE LET hits == {i \in 1..(Len(noc) - 1) :
                          IsSpace(noc[i]) /\ noc[i + 1] = "("}
         IN  IF hits = {} THEN NaNText ELSE SubSeq(noc, 1, Min(hits) - 1)

\* astype(int) raises on a NaN
YearsParse(rows) == \A i \in 1..Len(rows) : rows[i].Year # NaN

\* lines 24-26 on the fetched rows
Normalize(rows) ==
    LET kept == dropna(rows)
    IN  [i \in 1..Len(kept) |-> [kept[i] EXCEPT !.Country = Extract(kept[i].NOC)]]

\* a cache that never hits
CacheResourceOff(isCached, cachedValue, sheetRows) ==
    [value |-> Normalize(sheetRows), fetched |-> 1]

\* a cache that is dropped when the worksheet no longer matches it
CacheResourceInvalidated(isCached, cachedValue, sheetRows) ==
    IF isCached /\ Normalize(sheetRows) = cachedValue
    THEN [value |-> cachedValue, fetched |-> 0]
    ELSE [value |-> Normalize(sheetRows), fetched |-> 1]

\* @st.cache_resource around load_data: the body runs only on a miss
CacheResource(isCached, cachedValue, sheetRows) ==
    IF isCached
    THEN [value |-> cachedValue, fetched |-> 0]
    ELSE [value |-> Normalize(sheetRows), fetched |-> 1]

----------------------------------------------------------------------------
(* Sidebar filter, lines 33-39 *)

years(t) == {t[i].Year : i \in 1..Len(t)}
countries(t) == {t[i].Country : i \in 1..Len(t)} \ {NaNText}

\* a filter that tests the year only
FilterYearOnly(t, sy, sc) == SelectSeq(t, LAMBDA r : r.Year \in sy)

\* df[(df['Year'].isin(sy)) & (df['Country'].isin(sc))]
Filter(t, sy, sc) ==
    SelectSeq(t, LAMBDA r : r.Year \in sy /\ r.Country \in sc)

----------------------------------------------------------------------------
(* Editor and save, lines 43-48 *)

\* st.data_editor(filtered_df, key="edit"): the widget's edits belong to the
\* data it was given; given other data it starts again from that data
data_editor(input, prevInput, prevOutput) ==
    IF input = prevInput THEN prevOutput ELSE input

DeleteRow(t, i) == [j \in 1..(Len(t) - 1) |-> IF j < i THEN t[j] ELSE t[j + 1]]

\* what the user did in the editor before this run
NoEdit == [op |-> "none"]
ApplyEdit(t, ed) ==
    CASE ed.op = "none" -> t
      [] ed.op = "delete" -> DeleteRow(t, ed.i)
      [] ed.op = "add" -> Append(t, ed.r)
      [] ed.op = "cell" -> [t EXCEPT ![ed.i].Total = ed.v]

\* set_with_dataframe(sheet, edited_df) with the library's defaults
\* (row=1, col=1, include_column_header=True, resize=False): the frame is
\* written from the top-left cell; the worksheet is grown to hold it and is
\* never shrunk or cleared, so rows below the frame keep their cells
set_with_dataframe(sheetRows, frame) ==
    LET n == IF Len(frame) > Len(sheetRows) THEN Len(frame) ELSE Len(sheetRows)
    IN  [i \in 1..n |-> IF i <= Len(frame) THEN frame[i] ELSE sheetRows[i]]

\* a handler that writes on every run
SaveBranchAlways(clicked, sheetRows, frame) == set_with_dataframe(sheetRows, frame)

\* if st.button(...): set_with_dataframe(sheet, edited_df)
SaveBranch(clicked, sheetRows, frame) ==
    IF clicked THEN set_with_dataframe(sheetRows, frame) ELSE sheetRows

\* a handler that swallows the error and reports success
NoticeSwallow(clicked, writeOk) == IF clicked THEN "success" ELSE "none"

\* lines 47-48: st.success runs only when set_with_dataframe returned; an
\* exception leaves the script at line 47 and Streamlit shows it in the page
Notice(clicked, writeOk) ==
    IF ~clicked THEN "none"
    ELSE IF writeOk THEN "success" ELSE "exception"

----------------------------------------------------------------------------
(* Views, lines 73-125 *)

TopN == 3

RECURSIVE ColSum(_, _, _, _)
\* groupby('Country')[col].sum() for one key: rows are added in table order
ColSum(t, key, col, i) ==
    IF i > Len(t) THEN 0
    ELSE (IF t[i].Country = key THEN t[i][col] ELSE 0) + ColSum(t, key, col, i + 1)

\* lines 75-77: one group per country, keys sorted, Total assigned
grouped(f) ==
    LET keys == SortedStrs(countries(f))
    IN  [i \in 1..Len(keys) |->
            LET g == ColSum(f, keys[i], "Gold", 1)
                s == ColSum(f, keys[i], "Silver", 1)
                b == ColSum(f, keys[i], "Bronze", 1)
            IN  [Country |-> keys[i], Gold |-> g, Silver |-> s, Bronze |-> b,
                 Total |-> g + s + b]]

\* sort_values('Total', ascending=False): the order of equal totals is the
\* sort's own, so every descending order is a possible result
sort_values_desc(g) ==
    {[i \in 1..Len(g) |-> g[p[i]]] :
        p \in {q \in Permutations(1..Len(g)) :
                 \A i, j \in 1..Len(g) : i < j => g[q[i]].Total >= g[q[j]].Total}}

head(s, n) == SubSeq(s, 1, IF Len(s) < n THEN Len(s) ELSE n)

\* a Top-N that ranks by ascending total
total_medals_asc(f) ==
    IF f = <<>> THEN {}
    ELSE LET g == grouped(f)
         IN  {head([i \in 1..Len(s) |-> s[Len(s) + 1 - i]], TopN) :
                 s \in sort_values_desc(g)}

\* lines 73-81: the possible values of total_medals; nothing when the
\* filtered table is empty
total_medals(f) ==
    IF f = <<>> THEN {}
    ELSE {head(s, TopN) : s \in sort_values_desc(grouped(f))}

RECURSIVE CellSum(_, _, _, _)
\* aggfunc='sum' of Total over the rows of one (country, year); NaN when
\* the pair has no row
CellSum(t, c, y, i) ==
    IF i > Len(t) THEN NaN
    ELSE LET rest == CellSum(t, c, y, i + 1)
         IN  IF t[i].Country = c /\ t[i].Year = y
             THEN t[i].Total + (IF rest = NaN THEN 0 ELSE rest)
             ELSE rest

fillna(v, x) == IF v = NaN THEN x ELSE v

\* a pivot without fillna
heatmap_df_nofill(f) ==
    LET idx == SortedStrs(countries(f))
        cols == SortedInts(years(f))
    IN  [index |-> idx, columns |-> cols,
         values |-> [i \in 1..Len(idx) |-> [j \in 1..Len(cols) |->
                        CellSum(f, idx[i], cols[j], 1)]]]

\* line 107: pivot_table(index='Country', columns='Year', values='Total',
\* aggfunc='sum').fillna(0)
heatmap_df(f) ==
    LET idx == SortedStrs(countries(f))
        cols == SortedInts(years(f))
    IN  [index |-> idx, columns |-> cols,
         values |-> [i \in 1..Len(idx) |-> [j \in 1..Len(cols) |->
                        fillna(CellSum(f, idx[i], cols[j], 1), 0)]]]

\* a latest-year view that takes the latest year of the whole table
latest_data_from_df(f) ==
    IF f = <<>> THEN [drawn |-> FALSE, rows |-> <<>>]
    ELSE [drawn |-> TRUE,
          rows |-> SelectSeq(f, LAMBDA r : r.Year = Max(years(df)))]

\* lines 119-121: skipped when the filtered table is empty
latest_data_filtered(f) ==
    IF f = <<>> THEN [drawn |-> FALSE, rows |-> <<>>]
    ELSE [drawn |-> TRUE,
          rows |-> SelectSeq(f, LAMBDA r : r.Year = Max(years(f)))]

----------------------------------------------------------------------------
(* Inputs *)

Noc(ch) == <<ch, " ", "(", "x", ")">>
NocNoSpace == <<"e", "(", "x", ")">>

RA14 == Row(Noc("a"), 2014, 1, 0, 0, 1, NaNText)
RA18 == Row(Noc("a"), 2018, 0, 1, 0, 1, NaNText)
RB18 == Row(Noc("b"), 2018, 1, 1, 0, 2, NaNText)
RC14 == Row(Noc("c"), 2014, 0, 0, 1, 5, NaNText)
RD22 == Row(Noc("d"), 2022, 1, 1, 1, 3, NaNText)
RE18 == Row(NocNoSpace, 2018, 2, 0, 0, 2, NaNText)
REmpty == Row(NaNText, NaN, NaN, NaN, NaN, NaN, NaNText)
RNoYear == Row(Noc("b"), NaN, 1, 0, 0, 1, NaNText)

SheetRows == {RA14, RB18, RE18, REmpty, RNoYear}
ViewSheetRows == {RA14, RA18, RB18, RC14, RD22, RE18}

\* what the user may type into the editor
EditorRows == {Row(Noc("c"), 2018, 1, 0, 0, 1, <<"c">>)}
EditorTotals == {7}

Tables(rows, n) == UNION {[1..k -> rows] : k \in 1..n}

----------------------------------------------------------------------------
(* The script *)

InitWith(sheets) ==
    /\ remote \in sheets
    /\ loaded = FALSE
    /\ df = <<>>
    /\ fetches = 0
    /\ loadFailures = 0
    /\ selected_years = {}
    /\ selected_countries = {}
    /\ filtered_df = <<>>
    /\ edited_df = <<>>
    /\ button = FALSE
    /\ notice = "none"
    /\ nEdits = 0

Init == InitWith(Tables(SheetRows, MaxRows))

\* one execution of the script with the widgets' values given: sy and sc
\* from the multiselects, ed the user's change in the editor, clicked from
\* the button, writeOk whether set_with_dataframe returned, applied whether
\* a write that raised reached the worksheet all the same
Run(sy, sc, ed, clicked, writeOk, applied) ==
    LET ld == CacheResource(loaded, df, remote)
        f == Filter(ld.value, sy, sc)
        e == ApplyEdit(data_editor(f, filtered_df, edited_df), ed)
    IN  /\ df' = ld.value
        /\ fetches' = fetches + ld.fetched
        /\ selected_years' = sy
        /\ selected_countries' = sc
        /\ filtered_df' = f
        /\ edited_df' = e
        /\ button' = clicked
        /\ remote' = IF writeOk \/ applied
                     THEN SaveBranch(clicked, remote, e) ELSE remote
        /\ notice' = Notice(clicked, writeOk)
        /\ UNCHANGED <<loaded, loadFailures>>

\* first execution: load_data's body runs and the widgets take their defaults
Load ==
    /\ ~loaded
    /\ YearsParse(dropna(remote))
    /\ LET ld == CacheResource(loaded, df, remote)
           f == Filter(ld.value, years(ld.value), countries(ld.value))
       IN  /\ df' = ld.value
           /\ fetches' = fetches + ld.fetched
           /\ loaded' = TRUE
           /\ selected_years' = years(ld.value)
           /\ selected_countries' = countries(ld.value)
           /\ filtered_df' = f
           /\ edited_df' = data_editor(f, filtered_df, edited_df)
           /\ button' = FALSE
           /\ notice' = "none"
    /\ UNCHANGED <<remote, loadFailures, nEdits>>

\* load_data raises (the fetch fails, or astype(int) meets a NaN): nothing
\* is cached and the script stops at line 29
LoadFail ==
    /\ ~loaded
    /\ loadFailures < MaxLoadRetries
    /\ loadFailures' = loadFailures + 1
    /\ notice' = "exception"
    /\ UNCHANGED <<remote, loaded, df, fetches, selected_years,
                   selected_countries, filtered_df, edited_df, button, nEdits>>

ToggleYear(y) ==
    /\ loaded
    /\ y \in years(df)
    /\ Run(IF y \in selected_years THEN selected_years \ {y}
           ELSE selected_years \cup {y},
           selected_countries, NoEdit, FALSE, TRUE, FALSE)
    /\ UNCHANGED nEdits

ToggleCountry(c) ==
    /\ loaded
    /\ c \in countries(df)
    /\ Run(selected_years,
           IF c \in selected_countries THEN selected_countries \ {c}
           ELSE selected_countries \cup {c},
           NoEdit, FALSE, TRUE, FALSE)
    /\ UNCHANGED nEdits

EditDelete(i) ==
    /\ loaded /\ nEdits < MaxEdits
    /\ i \in 1..Len(edited_df)
    /\ Run(selected_years, selected_countries,
           [op |-> "delete", i |-> i], FALSE, TRUE, FALSE)
    /\ nEdits' = nEdits + 1

EditAdd(r) ==
    /\ loaded /\ nEdits < MaxEdits
    /\ Run(selected_years, selected_countries,
           [op |-> "add", r |-> r], FALSE, TRUE, FALSE)
    /\ nEdits' = nEdits + 1

EditCell(i, v) ==
    /\ loaded /\ nEdits < MaxEdits
    /\ i \in 1..Len(edited_df)
    /\ edited_df[i].Total # v
    /\ Run(selected_years, selected_countries,
           [op |-> "cell", i |-> i, v |-> v], FALSE, TRUE, FALSE)
    /\ nEdits' = nEdits + 1

\* the button is pressed and the write succeeds
SaveOk ==
    /\ loaded
    /\ Run(selected_years, selected_countries, NoEdit, TRUE, TRUE, TRUE)
    /\ UNCHANGED nEdits

\* the button is pressed and set_with_dataframe raises; the request may or
\* may not have reached the worksheet
SaveFail ==
    /\ loaded
    /\ \E applied \in BOOLEAN :
           Run(selected_years, selected_countries, NoEdit, TRUE, FALSE, applied)
    /\ UNCHANGED nEdits

Next ==
    \/ Load
    \/ LoadFail
    \/ \E y \in years(df) : ToggleYear(y)
    \/ \E c \in countries(df) : ToggleCountry(c)
    \/ \E i \in 1..Len(edited_df) : EditDelete(i)
    \/ \E r \in EditorRows : EditAdd(r)
    \/ \E i \in 1..Len(edited_df), v \in EditorTotals : EditCell(i, v)
    \/ SaveOk
    \/ SaveFail

Spec == Init /\ [][Next]_vars

\* the filter and the views alone, over larger tables
ViewInit == InitWith(Tables(ViewSheetRows, MaxViewRows))

ViewNext ==
    \/ Load
    \/ \E y \in years(df) : ToggleYear(y)
    \/ \E c \in countries(df) : ToggleCountry(c)

ViewSpec == ViewInit /\ [][ViewNext]_vars

----------------------------------------------------------------------------
(* Vocabulary of the properties *)

Count(t, r) == Cardinality({i \in 1..Len(t) : t[i] = r})

RECURSIVE SumIdx(_, _, _)
\* the sum of column col over the rows of t whose index is in S
SumIdx(S, t, col) ==
    IF S = {} THEN 0
    ELSE LET i == CHOOSE k \in S : TRUE
         IN  t[i][col] + SumIdx(S \ {i}, t, col)

RowsOf(t, c) == {i \in 1..Len(t) : t[i].Country = c}
RowsAt(t, c, y) == {i \in 1..Len(t) : t[i].Country = c /\ t[i].Year = y}

MedalTotal(t, c) ==
    SumIdx(RowsOf(t, c), t, "Gold") + SumIdx(RowsOf(t, c), t, "Silver")
        + SumIdx(RowsOf(t, c), t, "Bronze")

\* the NOC holds no whitespace character followed by "("
NoPattern(noc) ==
    /\ noc # NaNText
    /\ ~\E i \in 1..(Len(noc) - 1) : noc[i] = " " /\ noc[i + 1] = "("

DefaultSelection ==
    selected_years = years(df) /\ selected_countries = countries(df)

----------------------------------------------------------------------------
(* Properties *)

\* C1 (as stated): after a successful save the worksheet holds exactly the
\* rows of the edited table and nothing else (empty worksheet rows aside).
C1_SaveReplacesStore ==
    (button /\ notice = "success") => dropna(remote) = edited_df

\* C2: the filtered table holds exactly the records of the canonical table
\* whose year and country are both selected, each as often as the canonical
\* table holds it, and a run never changes the canonical table.
C2_FilterExact ==
    /\ [](loaded =>
            /\ Range(filtered_df) \subseteq Range(df)
            /\ \A r \in Range(df) :
                   Count(filtered_df, r) =
                       IF r.Year \in selected_years /\ r.Country \in selected_countries
                       THEN Count(df, r) ELSE 0)
    /\ [][loaded => df' = df]_vars

C2_Witness ==
    /\ loaded
    /\ filtered_df # <<>>
    /\ \E r \in Range(df) : r.Year \in selected_years /\ r.Country \notin selected_countries
    /\ \E r \in Range(df) : r.Year \notin selected_years /\ r.Country \in selected_countries

\* C3: load_data's body completes at most once in a session, and once the
\* table is cached no later run (filter change, edit, save) runs it again.
C3_FetchOnce ==
    [][fetches' <= 1 /\ (loaded => fetches' = fetches)]_vars

C3_Witness ==
    /\ loaded /\ fetches = 1
    /\ button /\ notice = "success"
    /\ nEdits > 0
    /\ ~DefaultSelection

\* C4: when the write of a save fails, the success message is not shown, the
\* failure is shown instead, the editor's table is kept, and the save can be
\* pressed again.
C4_FailedSave ==
    /\ [][SaveFail => /\ notice' # "success"
                      /\ notice' = "exception"
                      /\ edited_df' = edited_df]_vars
    /\ []((button /\ notice = "exception") => ENABLED SaveOk)

C4_Witness ==
    /\ button /\ notice = "exception"
    /\ edited_df # filtered_df

\* C5: a run changes the worksheet only if the save button was pressed in it.
C5_OnlySaveWrites ==
    [][remote' # remote => button']_vars

C5_Witness ==
    /\ loaded /\ ~button
    /\ nEdits > 0 /\ edited_df # filtered_df
    /\ ~DefaultSelection

\* C6: for a non-empty filtered table every possible Top-N view has
\* min(3, number of countries) groups, one per country, each with the sums
\* of gold, silver and bronze over all filtered rows of its country, in
\* non-increasing order of gold+silver+bronze, and no country left out has a
\* larger sum than one that is in.
C6_TopN ==
    (loaded /\ filtered_df # <<>>) =>
        /\ total_medals(filtered_df) # {}
        /\ \A v \in total_medals(filtered_df) :
            LET f == filtered_df
                n == Cardinality(countries(f))
                inV == {v[i].Country : i \in 1..Len(v)}
            IN  /\ Len(v) = (IF n < 3 THEN n ELSE 3)
                /\ Cardinality(inV) = Len(v)
                /\ inV \subseteq countries(f)
                /\ \A i \in 1..Len(v) :
                       /\ v[i].Gold = SumIdx(RowsOf(f, v[i].Country), f, "Gold")
                       /\ v[i].Silver = SumIdx(RowsOf(f, v[i].Country), f, "Silver")
                       /\ v[i].Bronze = SumIdx(RowsOf(f, v[i].Country), f, "Bronze")
                /\ \A i, j \in 1..Len(v) :
                       i < j => MedalTotal(f, v[i].Country) >= MedalTotal(f, v[j].Country)
                /\ \A c \in countries(f) \ inV : \A d \in inV :
                       MedalTotal(f, c) <= MedalTotal(f, d)

C6_Witness ==
    /\ loaded
    /\ Cardinality(countries(filtered_df)) > 3
    /\ \E c, d \in countries(filtered_df) :
           MedalTotal(filtered_df, c) < MedalTotal(filtered_df, d)

\* C7: the pivot is a dense grid over the countries and the years of the
\* filtered table; a cell is the sum of Total over the filtered rows of its
\* country and year, and 0 when there is no such row.
C7_DenseGrid ==
    loaded =>
        LET f == filtered_df
            h == heatmap_df(f)
        IN  /\ Range(h.index) = countries(f)
            /\ Len(h.index) = Cardinality(countries(f))
            /\ Range(h.columns) = years(f)
            /\ Len(h.columns) = Cardinality(years(f))
            /\ Len(h.values) = Len(h.index)
            /\ \A i \in 1..Len(h.index) :
                   /\ Len(h.values[i]) = Len(h.columns)
                   /\ \A j \in 1..Len(h.columns) :
                          /\ h.values[i][j] # NaN
                          /\ h.values[i][j] =
                                 SumIdx(RowsAt(f, h.index[i], h.columns[j]), f, "Total")

C7_Witness ==
    /\ loaded
    /\ \E c \in countries(filtered_df), y \in years(filtered_df) :
           RowsAt(filtered_df, c, y) = {}
    /\ \E c \in countries(filtered_df), y \in years(filtered_df) :
           Cardinality(RowsAt(filtered_df, c, y)) > 1

\* C8 (as stated): a loaded row whose NOC has no pattern has no country,
\* matches no country filter and is in no country-keyed view, and it is in
\* the table shown under the default selection of all years and countries.
C8_VisibleByDefault ==
    loaded =>
        \A i \in 1..Len(df) : NoPattern(df[i].NOC) =>
            /\ df[i].Country = NaNText
            /\ df[i].Country \notin selected_countries
            /\ df[i].Country \notin Range(heatmap_df(filtered_df).index)
            /\ DefaultSelection => df[i] \in Range(filtered_df)

\* C8 (amended): a row whose NOC has no pattern does not make the load fail
\* and stays in the canonical table with no country; it matches no country
\* filter, is in no country-keyed view, and is in no filtered table, so the
\* table the editor is given never holds it, under the default selection too.
C8_NeverShown ==
    /\ [][(~loaded /\ loaded') =>
             /\ YearsParse(dropna(remote))
             /\ Len(df') = Len(dropna(remote))
             /\ \A i \in 1..Len(df') :
                    /\ df'[i].NOC = dropna(remote)[i].NOC
                    /\ NoPattern(df'[i].NOC) => df'[i].Country = NaNText]_vars
    /\ [](loaded =>
            \A i \in 1..Len(df) : NoPattern(df[i].NOC) =>
                /\ df[i].Country = NaNText
                /\ df[i].Country \notin selected_countries
                /\ df[i] \notin Range(filtered_df)
                /\ nEdits = 0 => df[i] \notin Range(edited_df)
                /\ df[i] \notin Range(latest_data_filtered(filtered_df).rows)
                /\ df[i].Country \notin Range(heatmap_df(filtered_df).index)
                /\ \A v \in total_medals(filtered_df) : \A k \in 1..Len(v) :
                       v[k].Country # df[i].Country /\ v[k].Country # df[i].NOC)

C8_Witness ==
    /\ loaded /\ DefaultSelection
    /\ filtered_df # <<>>
    /\ \E i \in 1..Len(df) : NoPattern(df[i].NOC)

\* C9: for a non-empty filtered table the latest-year view holds exactly the
\* filtered rows of the largest year of the filtered table; for an empty one
\* the view is skipped.
C9_LatestYear ==
    loaded =>
        LET f == filtered_df
            v == latest_data_filtered(f)
        IN  IF f = <<>> THEN ~v.drawn
            ELSE /\ v.drawn
                 /\ Range(v.rows) \subseteq Range(f)
                 /\ \A r \in Range(f) :
                        Count(v.rows, r) =
                            IF \A y \in years(f) : y <= r.Year
                            THEN Count(f, r) ELSE 0

C9_Witness ==
    /\ loaded /\ filtered_df # <<>>
    /\ \E y \in years(df) : \A z \in years(filtered_df) : z < y
    /\ Cardinality(years(filtered_df)) > 1

\* C10: once loaded, the canonical table is the same after every run, saves
\* included, and the filtered table of every run is computed from it.
C10_SaveKeepsTable ==
    /\ [][loaded => df' = df]_vars
    /\ [](loaded => filtered_df = Filter(df, selected_years, selected_countries))
    /\ [][(~loaded /\ loaded') => df' = Normalize(remote)]_vars

C10_Witness ==
    /\ loaded
    /\ ~button /\ notice = "none"
    /\ Normalize(remote) # df
    /\ filtered_df # <<>>

====
